---- MODULE Spec2Model ----
(***************************************************************************)
(* Model of src/data/make_dataset.py: the movie10 preprocessing script.    *)
(*                                                                         *)
(* Strings that the code takes apart (filenames, filename fragments) are   *)
(* sequences of tokens, so that the regular expression of _get_segment,    *)
(* the glob patterns of the main loop and str.replace act on their parts.  *)
(* An image is a sequence of chunks of frames, each with the scan and the   *)
(* confound file it comes from; voxel values are produced by nilearn and   *)
(* are not modelled.                                                       *)
(***************************************************************************)
EXTENDS Integers, Sequences, FiniteSets, TLC

\* ------------------------------------------------------------------ bounds
MaxFiles == 3        \* longest list handed to _get_segment on its own
MaxDigits == 2       \* longest digit run in a file name
MaxSeg == 6          \* highest segment index present in a subject directory
MaxMissing == 2      \* how many segment files a directory may lack
MaxShort == 2        \* highest index of a segment that was cut short
MaxRows == 2         \* rows of a confound table
MaxArgs == 3         \* longest list handed to subset_and_process_movie10

\* an optional value: None is the empty tuple, a value v is <<v>>
None == <<>>

Some(v) == <<v>>

ValOf(o) == o[1]

\* ------------------------------------------------------- generic helpers
SeqsUpTo(S, n) == UNION {[1..k -> S] : k \in 0..n}

Range(f) == {f[x] : x \in DOMAIN f}

Min(a, b) == IF a <= b THEN a ELSE b

Max(a, b) == IF a >= b THEN a ELSE b

RECURSIVE SumSeq(_)
SumSeq(q) == IF q = <<>> THEN 0 ELSE Head(q) + SumSeq(Tail(q))

RECURSIVE Pow(_, _)
Pow(b, e) == IF e = 0 THEN 1 ELSE b * Pow(b, e - 1)

Count(q, x) == Cardinality({j \in DOMAIN q : q[j] = x})

\* Python q[:n] for a list q and an int n (a negative n counts from the end)
PySlice(q, n) ==
  IF n >= 0 THEN SubSeq(q, 1, Min(n, Len(q)))
  ELSE SubSeq(q, 1, Max(Len(q) + n, 0))

\* ---------------------------------------------------------- _get_segment
DigitChars == <<"0", "1", "2", "3", "4", "5", "6", "7", "8", "9">>

IsDigit(c) == c \in Range(DigitChars)

DigitVal(c) == (CHOOSE j \in DOMAIN DigitChars : DigitChars[j] = c) - 1

\* int(): the value of a run of decimal digits
RECURSIVE IntOf(_)
IntOf(ds) ==
  IF ds = <<>> THEN 0
  ELSE IntOf(SubSeq(ds, 1, Len(ds) - 1)) * 10 + DigitVal(ds[Len(ds)])

\* positions where 'task-{task}(\d+)' matches in the name x
MatchStarts(x, task) ==
  {j \in 1..(Len(x) - 2) :
     x[j] = "task-" /\ x[j + 1] = task /\ IsDigit(x[j + 2])}

\* re.search: the leftmost match; (\d+) is greedy, so group(1) is the
\* maximal run of digits that follows
Group1(x, task) ==
  LET st == CHOOSE j \in MatchStarts(x, task) :
                \A j2 \in MatchStarts(x, task) : j <= j2
      first == st + 2
      last == CHOOSE e \in first..Len(x) :
                /\ \A j \in first..e : IsDigit(x[j])
                /\ (e = Len(x) \/ ~IsDigit(x[e + 1]))
  IN SubSeq(x, first, last)

\* a key that orders digit runs as strings are ordered
LexKey(x, task) ==
  LET ds == Group1(x, task)
      w == MaxDigits + 2
  IN SumSeq([j \in 1..Len(ds) |-> (DigitVal(ds[j]) + 1) * Pow(11, w - j)])

\* the sort key: lambda x: int(re.search(...).group(1))
SegmentKey(x, task) == IntOf(Group1(x, task))

\* sorted(): a stable sort by key, as insertion from the left
RECURSIVE SortedByKey(_, _)
SortedByKey(q, task) ==
  IF q = <<>> THEN <<>>
  ELSE LET init == SortedByKey(SubSeq(q, 1, Len(q) - 1), task)
           x == q[Len(q)]
           k == Cardinality({j \in DOMAIN init :
                               SegmentKey(init[j], task) <= SegmentKey(x, task)})
       IN SubSeq(init, 1, k) \o <<x>> \o SubSeq(init, k + 1, Len(init))

\* re.search returns None for a name without a match and .group raises
GetSegmentRaises(fl, task) == \E j \in DOMAIN fl : MatchStarts(fl[j], task) = {}

\* the names as they were listed
NoSort(fl, task) == fl

\* lines 55-57
get_segment(fl, task) == SortedByKey(fl, task)

\* ----------------------------------------------------- _subset_confounds
keep_confounds ==
  <<"trans_x", "trans_y", "trans_z", "rot_x", "rot_y", "rot_z",
    "csf", "white_matter">>

\* a confound table: the header's column names and the rows of cells
FieldIndex(names, c) == CHOOSE p \in DOMAIN names : names[p] = c

\* the columns of the table that are wanted, in the table's own order
SelectFieldsTableOrder(table, fields) ==
  LET pos == {p \in DOMAIN table.names : table.names[p] \in Range(fields)}
      nth(k) == CHOOSE p \in pos : Cardinality({p2 \in pos : p2 < p}) = k - 1
  IN [names |-> [k \in 1..Cardinality(pos) |-> table.names[nth(k)]],
      rows |-> [r \in DOMAIN table.rows |->
                  [k \in 1..Cardinality(pos) |-> table.rows[r][nth(k)]]]]

\* confounds[keep_confounds]: a record array indexed by a list of field
\* names has these fields, in the order of the list
SelectFields(table, fields) ==
  [names |-> fields,
   rows |-> [r \in DOMAIN table.rows |->
               [k \in DOMAIN fields |->
                  table.rows[r][FieldIndex(table.names, fields[k])]]]]

\* indexing with a name that is not a field raises KeyError
SubsetConfoundsRaises(table) ==
  \E k \in DOMAIN keep_confounds : keep_confounds[k] \notin Range(table.names)

subset_confounds(table) == SelectFields(table, keep_confounds)

\* ------------------------------------------------ create_data_dictionary
tasks_list == <<"bourne", "wolf", "figures", "life">>

segment_lengths_list ==
  << <<403, 405, 405, 405, 405, 405, 405, 405, 405, 380>>,
     <<406, 406, 406, 406, 406, 406, 406, 406, 406, 406,
       406, 406, 406, 406, 406, 406, 498>>,
     <<410, 410, 410, 409, 408, 410, 410, 409, 410, 409, 409, 373>>,
     <<406, 406, 406, 406, 384>> >>

regr_str ==
  << <<"desc-confounds_regressors.tsv">>,
     <<"run-1_", "desc-confounds_regressors.tsv">> >>

tmpl_str ==
  << <<"space-MNI152NLin2009cAsym_", "desc-preproc", "_bold">>,
     <<"run-1_", "space-MNI152NLin2009cAsym_", "desc-preproc", "_bold">> >>

\* the list repeated as a whole: x0, x1, x0, x1
Cycled(q) == [j \in 1..(2 * Len(q)) |-> q[((j - 1) % Len(q)) + 1]]

\* [_ for x in q for _ in (x,)*2]: every element twice in a row
Pairs(q) == [j \in 1..(2 * Len(q)) |-> q[(j + 1) \div 2]]

\* the dict comprehension over zip(tasks, segment_lengths, regr_pairs,
\* tmpl_pairs): zip stops at the shortest list, a repeated key keeps the
\* last value
create_data_dictionary ==
  LET regr_pairs == Pairs(regr_str)
      tmpl_pairs == Pairs(tmpl_str)
      zlen == Min(Min(Len(tasks_list), Len(segment_lengths_list)),
                  Min(Len(regr_pairs), Len(tmpl_pairs)))
      last(k) == CHOOSE j \in 1..zlen :
                   /\ tasks_list[j] = k
                   /\ \A j2 \in 1..zlen : tasks_list[j2] = k => j2 <= j
  IN [tasks |-> tasks_list,
      data_dictionary |->
        [k \in {tasks_list[j] : j \in 1..zlen} |->
           [segment_lengths |-> segment_lengths_list[last(k)],
            regr_str |-> regr_pairs[last(k)],
            tmpl_str |-> tmpl_pairs[last(k)]]]]

\* ---------------------------------------------------------- the dataset
subjects == <<"sub-01", "sub-02", "sub-03", "sub-04", "sub-05", "sub-06">>

\* "bourne and wolf do not have run key-value, figures and life do":
\* the movies with a run key were shown twice
HasRunKey(tk) == tk \in {"figures", "life"}

Digits2(idx) == <<DigitChars[(idx \div 10) + 1], DigitChars[(idx % 10) + 1]>>

RunKey(tk, run) ==
  IF HasRunKey(tk) THEN (IF run = 1 THEN <<"run-1_">> ELSE <<"run-2_">>)
  ELSE <<>>

\* the file name of a preprocessed scan segment
BoldName(sub, sl) ==
  <<sub, "/", sub, "_", "task-", sl.task>> \o Digits2(sl.seg) \o <<"_">>
    \o RunKey(sl.task, sl.run)
    \o <<"space-MNI152NLin2009cAsym_", "desc-preproc", "_bold", ".nii.gz">>

\* the file name of the confound table of a scan segment
ConfName(sub, sl) ==
  <<sub, "/", sub, "_", "task-", sl.task>> \o Digits2(sl.seg) \o <<"_">>
    \o RunKey(sl.task, sl.run) \o <<"desc-confounds_regressors.tsv">>

\* every (task, run, segment) a subject directory may hold, in listing order
AllSlots ==
  [j \in 1..(Len(tasks_list) * 2 * MaxSeg) |->
     [task |-> tasks_list[((j - 1) \div (2 * MaxSeg)) + 1],
      run |-> (((j - 1) \div MaxSeg) % 2) + 1,
      seg |-> ((j - 1) % MaxSeg) + 1]]

Reverse(q) == [j \in 1..Len(q) |-> q[Len(q) + 1 - j]]

\* a subject directory fs: the segments present, the segments whose
\* confound table is absent, and the segment that was cut short
SlotPresent(sl, fs) ==
  /\ sl.seg \in fs.present
  /\ (sl.run = 1 \/ HasRunKey(sl.task))

RefLen(tk, seg) ==
  LET j == CHOOSE j \in DOMAIN tasks_list : tasks_list[j] = tk
      lens == segment_lengths_list[j]
  IN lens[Min(seg, Len(lens))]

\* the number of frames of a segment's scan: the hard-coded numbers are the
\* minimum over subjects, so a well-formed scan has at least that many
SlotFrames(sl, fs) ==
  RefLen(sl.task, sl.seg)
    + (IF sl.seg = fs.short THEN -1 ELSE IF sl.seg % 2 = 0 THEN 1 ELSE 0)

FramesOf(m, fs) ==
  LET sl == CHOOSE sl \in Range(AllSlots) : BoldName(m[1], sl) = m
  IN SlotFrames(sl, fs)

\* the directory walk of rglob; its order is the file system's
Listing(sub, fs, rev) ==
  LET slots == SelectSeq(AllSlots, LAMBDA sl : SlotPresent(sl, fs))
      tsvs == SelectSeq(slots, LAMBDA sl : sl.seg \notin fs.noconf)
      all == [j \in 1..Len(slots) |-> BoldName(sub, slots[j])]
               \o [j \in 1..Len(tsvs) |-> ConfName(sub, tsvs[j])]
  IN IF rev THEN Reverse(all) ELSE all

\* the part of a path after its last "/"
BaseName(x) ==
  LET sl == {j \in DOMAIN x : x[j] = "/"}
      cut == IF sl = {} THEN 0 ELSE CHOOSE j \in sl : \A j2 \in sl : j2 <= j
  IN SubSeq(x, cut + 1, Len(x))

EndsWith(x, suffix) ==
  /\ Len(x) >= Len(suffix)
  /\ SubSeq(x, Len(x) - Len(suffix) + 1, Len(x)) = suffix

\* the name matches '*{t}*{tmpl}.nii.gz'
MatchesBold(x, tk, tmpl) ==
  LET b == BaseName(x)
      suffix == tmpl \o <<".nii.gz">>
  IN /\ EndsWith(b, suffix)
     /\ \E j \in 1..(Len(b) - Len(suffix)) : b[j] = tk

\* the name matches '*_task-{t}*{regr}'
MatchesRegr(x, tk, regr) ==
  LET b == BaseName(x)
  IN /\ EndsWith(b, regr)
     /\ \E j \in 1..(Len(b) - Len(regr) - 2) :
          b[j] = "_" /\ b[j + 1] = "task-" /\ b[j + 2] = tk

\* Path(s).rglob(pattern), as the list of str(f)
GlobBold(sub, fs, rev, tk, tmpl) ==
  SelectSeq(Listing(sub, fs, rev), LAMBDA x : MatchesBold(x, tk, tmpl))

GlobRegr(sub, fs, rev, tk, regr) ==
  SelectSeq(Listing(sub, fs, rev), LAMBDA x : MatchesRegr(x, tk, regr))

\* itertools.product(subjects, tasks): subjects outermost
Product(ts) ==
  [j \in 1..(Len(subjects) * Len(ts)) |->
     <<subjects[((j - 1) \div Len(ts)) + 1], ts[((j - 1) % Len(ts)) + 1]>>]

\* f'desc-fwhm{fwhm}'
FwhmTokens(fw) ==
  <<"desc-fwhm", IF fw = None THEN "None" ELSE ToString(ValOf(fw))>>

\* str.replace('desc-preproc', ...) over the whole name
RECURSIVE Replace(_, _, _)
Replace(x, old, new) ==
  IF x = <<>> THEN <<>>
  ELSE (IF Head(x) = old THEN new ELSE <<Head(x)>>)
         \o Replace(Tail(x), old, new)

\* the name before the replacement
RawFname(sub, tk, tmpl) ==
  <<sub, "/", sub, "_", "task-", tk, "_">> \o tmpl \o <<".nii.gz">>

\* a name that leaves the task out
PostprocFnameNoTask(sub, tk, tmpl, fw) ==
  Replace(<<sub, "/", sub, "_">> \o tmpl \o <<".nii.gz">>,
          "desc-preproc", FwhmTokens(fw))

\* f'{s}/{s}_task-{t}_{tmpl}.nii.gz'.replace('desc-preproc', f'desc-fwhm{fwhm}')
PostprocFname(sub, tk, tmpl, fw) ==
  Replace(RawFname(sub, tk, tmpl), "desc-preproc", FwhmTokens(fw))

\* ------------------------------------------------------------ the images
\* An image is a sequence of chunks; a chunk stands for the first `frames`
\* frames of the cleaned scan `scan`, cleaned with the confounds of `conf`.
NFrames(img) == SumSeq([j \in 1..Len(img) |-> img[j].frames])

\* the image unchanged
NoSlice(img, stop) == img

\* img.slicer[..., :stop] for stop >= 0
RECURSIVE SliceFrames(_, _)
SliceFrames(img, stop) ==
  IF img = <<>> \/ stop <= 0 THEN <<>>
  ELSE <<[Head(img) EXCEPT !.frames = Min(@, stop)]>>
         \o SliceFrames(Tail(img), stop - Head(img).frames)

\* image.concat_imgs
RECURSIVE ConcatImgs(_)
ConcatImgs(imgs) ==
  IF imgs = <<>> THEN <<>> ELSE Head(imgs) \o ConcatImgs(Tail(imgs))

\* the confound table of an fMRIPrep run; only its columns matter here
ConfoundFile(r) ==
  [names |-> <<"csf", "white_matter", "global_signal", "trans_x", "rot_x",
               "trans_y", "rot_y", "trans_z", "rot_z">>,
   rows |-> <<>>]

\* ------------------------------------------------------------------ state
VARIABLES
  pc,                  \* the statement about to run
  caller,              \* who called subset_and_process_movie10
  err,                 \* the exception that ended the run, or "none"
  files, task, segments,         \* _get_segment: arguments and result
  tsv, selected_confounds,       \* _subset_confounds: table read and result
  fs,                  \* the directory of the current subject
  k,                   \* pairs of the grid taken from itertools.product
  s, t,                \* loop variables of the main loop
  tasks, data_dictionary,
  seg_len, regr, tmpl,
  movie_segments, regressor_segments,     \* the module-level lists
  printed,             \* the (s, t) lines printed
  saved,               \* output files on disk: name -> times written
  bold_files, regressors, segment_lengths, n_segments, fwhm,  \* arguments
  l_movie_segments, l_regressor_segments, \* the function's locals (optional)
  confounds, postproc_segments, n, postproc, postproc_fname, movie

sortVars == <<files, task, segments>>

confVars == <<tsv, selected_confounds>>

globalVars ==
  <<fs, k, s, t, tasks, data_dictionary, seg_len, regr, tmpl,
    movie_segments, regressor_segments, printed>>

argVars == <<bold_files, regressors, segment_lengths, n_segments, fwhm>>

localVars ==
  <<l_movie_segments, l_regressor_segments, confounds, postproc_segments,
    n, postproc, postproc_fname, movie>>

vars ==
  <<pc, caller, err, sortVars, confVars, globalVars, saved, argVars,
    localVars>>

\* n_segments and fwhm of the call in the main block
MainNSegments == 5

MainFwhm == 6

SortIdle == files = <<>> /\ task = "" /\ segments = <<>>

ConfIdle ==
  /\ tsv = [names |-> <<>>, rows |-> <<>>]
  /\ selected_confounds = [names |-> <<>>, rows |-> <<>>]

NoFs == [present |-> {}, noconf |-> {}, short |-> 0]

GlobalsIdle ==
  /\ fs = NoFs /\ k = 0 /\ s = "" /\ t = ""
  /\ tasks = <<>> /\ data_dictionary = <<>>
  /\ seg_len = <<>> /\ regr = <<>> /\ tmpl = <<>>
  /\ movie_segments = <<>> /\ regressor_segments = <<>>
  /\ printed = <<>>

ArgsIdle ==
  /\ bold_files = <<>> /\ regressors = <<>> /\ segment_lengths = <<>>
  /\ n_segments = None /\ fwhm = None

\* a fresh frame of subset_and_process_movie10
FreshLocals ==
  /\ l_movie_segments' = None
  /\ l_regressor_segments' = None
  /\ confounds' = <<>>
  /\ postproc_segments' = <<>>
  /\ n' = 0
  /\ postproc' = <<>>
  /\ postproc_fname' = <<>>
  /\ movie' = <<>>

LocalsIdle ==
  /\ l_movie_segments = None
  /\ l_regressor_segments = None
  /\ confounds = <<>>
  /\ postproc_segments = <<>>
  /\ n = 0
  /\ postproc = <<>>
  /\ postproc_fname = <<>>
  /\ movie = <<>>

\* the directories a subject may have
PresentChoices ==
  {(1..MaxSeg) \ miss :
     miss \in {m \in SUBSET (1..MaxSeg) : Cardinality(m) <= MaxMissing}}

\* no confound table is absent, or that of the first or of the last segment
NoConfChoices(present) ==
  {{}} \cup {{x} : x \in {y \in present : \/ \A z \in present : y <= z
                                         \/ \A z \in present : y >= z}}

FsChoices ==
  UNION {{[present |-> pr, noconf |-> nc, short |-> sh] :
            nc \in NoConfChoices(pr), sh \in 0..MaxShort} :
         pr \in PresentChoices}

Raise(e) == pc' = "raised" /\ err' = e

\* ------------------------------------------- subset_and_process_movie10
\* assert n_segments <= len(bold_files)
AssertLoose(ns, bf) == ns < Len(bf)

AssertOk(ns, bf) == ns <= Len(bf)

\* the for loop over movie_segments has no element left
LoopEndsEarly(done, segs) == done >= 1 \/ done >= Len(segs)

LoopDone(done, segs) == done >= Len(segs)

\* bold_files[:n_segments]
SubsetSegments(q, cnt) == PySlice(q, cnt)

\* lines 176-182
Entry ==
  /\ pc = "f_entry"
  /\ IF n_segments = None
     THEN /\ pc' = "f_confounds"
          /\ UNCHANGED <<err, l_movie_segments, l_regressor_segments>>
     ELSE IF ~AssertOk(ValOf(n_segments), bold_files)
     THEN /\ Raise("AssertionError")
          /\ UNCHANGED <<l_movie_segments, l_regressor_segments>>
     ELSE /\ l_movie_segments' =
               Some(SubsetSegments(bold_files, ValOf(n_segments)))
          /\ l_regressor_segments' =
               Some(SubsetSegments(regressors, ValOf(n_segments)))
          /\ pc' = "f_confounds"
          /\ UNCHANGED err
  /\ UNCHANGED <<caller, sortVars, confVars, globalVars, saved, argVars,
                 confounds, postproc_segments, n, postproc, postproc_fname,
                 movie>>

\* lines 184-185; regressor_segments is a local of the function, bound only
\* when n_segments is not None
SelectConfounds ==
  /\ pc = "f_confounds"
  /\ postproc_segments' = <<>>
  /\ IF l_regressor_segments = None
     THEN Raise("UnboundLocalError") /\ UNCHANGED confounds
     ELSE IF \E r \in Range(ValOf(l_regressor_segments)) :
               SubsetConfoundsRaises(ConfoundFile(r))
     THEN Raise("KeyError") /\ UNCHANGED confounds
     ELSE /\ confounds' =
               [j \in DOMAIN ValOf(l_regressor_segments) |->
                  [src |-> ValOf(l_regressor_segments)[j],
                   table |-> subset_confounds(
                               ConfoundFile(ValOf(l_regressor_segments)[j]))]]
          /\ pc' = "f_for"
          /\ UNCHANGED err
  /\ UNCHANGED <<caller, sortVars, confVars, globalVars, saved, argVars,
                 l_movie_segments, l_regressor_segments, n, postproc,
                 postproc_fname, movie>>

\* line 187: the next (n, m) of enumerate(movie_segments), or the loop's end
For ==
  /\ pc = "f_for"
  /\ pc' = IF LoopDone(n, ValOf(l_movie_segments)) THEN "f_fname" ELSE "f_clean"
  /\ UNCHANGED <<caller, err, sortVars, confVars, globalVars, saved, argVars,
                 localVars>>

\* lines 188-192: confounds[n] is evaluated before the call
Clean ==
  /\ pc = "f_clean"
  /\ IF n + 1 \notin DOMAIN confounds
     THEN Raise("IndexError") /\ UNCHANGED postproc
     ELSE /\ postproc' =
               <<[scan |-> ValOf(l_movie_segments)[n + 1],
                  conf |-> confounds[n + 1].src,
                  frames |-> FramesOf(ValOf(l_movie_segments)[n + 1], fs)]>>
          /\ pc' = "f_trunc"
          /\ UNCHANGED err
  /\ UNCHANGED <<caller, sortVars, confVars, globalVars, saved, argVars,
                 l_movie_segments, l_regressor_segments, confounds,
                 postproc_segments, n, postproc_fname, movie>>

\* line 193: seg_len is the module-level name, not the argument
Truncate ==
  /\ pc = "f_trunc"
  /\ IF n + 1 \notin DOMAIN seg_len
     THEN Raise("IndexError") /\ UNCHANGED <<postproc_segments, n>>
     ELSE /\ postproc_segments' =
               Append(postproc_segments,
                      SliceFrames(postproc, seg_len[n + 1]))
          /\ n' = n + 1
          /\ pc' = "f_for"
          /\ UNCHANGED err
  /\ UNCHANGED <<caller, sortVars, confVars, globalVars, saved, argVars,
                 l_movie_segments, l_regressor_segments, confounds, postproc,
                 postproc_fname, movie>>

\* lines 195-196: s, t and tmpl are the module-level names
Fname ==
  /\ pc = "f_fname"
  /\ postproc_fname' = PostprocFname(s, t, tmpl, fwhm)
  /\ pc' = "f_concat"
  /\ UNCHANGED <<caller, err, sortVars, confVars, globalVars, saved, argVars,
                 l_movie_segments, l_regressor_segments, confounds,
                 postproc_segments, n, postproc, movie>>

\* line 197: concat_imgs refuses an empty list
Concat ==
  /\ pc = "f_concat"
  /\ IF postproc_segments = <<>>
     THEN Raise("TypeError") /\ UNCHANGED movie
     ELSE /\ movie' = ConcatImgs(postproc_segments)
          /\ pc' = "f_save"
          /\ UNCHANGED err
  /\ UNCHANGED <<caller, sortVars, confVars, globalVars, saved, argVars,
                 l_movie_segments, l_regressor_segments, confounds,
                 postproc_segments, n, postproc, postproc_fname>>

\* line 198
Save ==
  /\ pc = "f_save"
  /\ saved' =
       [f \in DOMAIN saved \cup {postproc_fname} |->
          IF f = postproc_fname
          THEN (IF f \in DOMAIN saved THEN saved[f] + 1 ELSE 1)
          ELSE saved[f]]
  /\ pc' = "f_return"
  /\ UNCHANGED <<caller, err, sortVars, confVars, globalVars, argVars,
                 localVars>>

\* line 199: the frame is gone after the return
Return ==
  /\ pc = "f_return"
  /\ pc' = IF caller = "main" THEN "m_print" ELSE "done"
  /\ FreshLocals
  /\ bold_files' = <<>> /\ regressors' = <<>> /\ segment_lengths' = <<>>
  /\ n_segments' = None /\ fwhm' = None
  /\ UNCHANGED <<caller, err, sortVars, confVars, globalVars, saved>>

Function ==
  \/ Entry \/ SelectConfounds \/ For \/ Clean \/ Truncate
  \/ Fname \/ Concat \/ Save \/ Return

\* ------------------------------------------------------- the main block
\* line 204
Start ==
  /\ pc = "m_start"
  /\ tasks' = create_data_dictionary.tasks
  /\ data_dictionary' = create_data_dictionary.data_dictionary
  /\ pc' = "m_for"
  /\ UNCHANGED <<caller, err, sortVars, confVars, fs, k, s, t, seg_len, regr,
                 tmpl, movie_segments, regressor_segments, printed, saved,
                 argVars, localVars>>

\* line 205: the next pair of the product, or the end of the script
MainFor ==
  /\ pc = "m_for"
  /\ IF k >= Len(Product(tasks))
     THEN pc' = "done" /\ UNCHANGED <<k, s, t>>
     ELSE /\ k' = k + 1
          /\ s' = Product(tasks)[k + 1][1]
          /\ t' = Product(tasks)[k + 1][2]
          /\ pc' = "m_unpack"
  /\ UNCHANGED <<caller, err, sortVars, confVars, fs, tasks, data_dictionary,
                 seg_len, regr, tmpl, movie_segments, regressor_segments,
                 printed, saved, argVars, localVars>>

\* lines 207-210: the values of the entry in insertion order, and the two
\* rglob generators, which walk the directory only when they are consumed
Unpack ==
  /\ pc = "m_unpack"
  /\ seg_len' = data_dictionary[t].segment_lengths
  /\ regr' = data_dictionary[t].regr_str
  /\ tmpl' = data_dictionary[t].tmpl_str
  /\ pc' = "m_sort"
  /\ UNCHANGED <<caller, err, sortVars, confVars, fs, k, s, t, tasks,
                 data_dictionary, movie_segments, regressor_segments,
                 printed, saved, argVars, localVars>>

\* the directory met when the glob of pair number j walks it: the data set
\* is laid out alike for all subjects, and which segment was cut short
\* varies from subject to subject
DirsAt(j, cur) ==
  IF j = 1 THEN FsChoices
  ELSE IF (j - 1) % Len(tasks_list) = 0
  THEN {[cur EXCEPT !.short = sh] : sh \in 0..MaxShort}
  ELSE {cur}

\* lines 214-215: the generators are consumed and the names sorted
SortSegments ==
  /\ pc = "m_sort"
  /\ \E d \in DirsAt(k, fs) :
       \E rev \in BOOLEAN :
         LET found == GlobBold(s, d, rev, t, tmpl)
             foundr == GlobRegr(s, d, rev, t, regr)
         IN /\ fs' = d
            /\ IF GetSegmentRaises(found, t) \/ GetSegmentRaises(foundr, t)
               THEN /\ Raise("AttributeError")
                    /\ UNCHANGED <<movie_segments, regressor_segments>>
               ELSE /\ movie_segments' = get_segment(found, t)
                    /\ regressor_segments' = get_segment(foundr, t)
                    /\ pc' = "m_call"
                    /\ UNCHANGED err
  /\ UNCHANGED <<caller, sortVars, confVars, k, s, t, tasks,
                 data_dictionary, seg_len, regr, tmpl, printed, saved,
                 argVars, localVars>>

\* lines 217-218
Call ==
  /\ pc = "m_call"
  /\ bold_files' = movie_segments
  /\ regressors' = regressor_segments
  /\ segment_lengths' = seg_len
  /\ n_segments' = Some(MainNSegments)
  /\ fwhm' = Some(MainFwhm)
  /\ FreshLocals
  /\ pc' = "f_entry"
  /\ UNCHANGED <<caller, err, sortVars, confVars, globalVars, saved>>

\* line 221
PrintPair ==
  /\ pc = "m_print"
  /\ printed' = Append(printed, <<s, t>>)
  /\ pc' = "m_for"
  /\ UNCHANGED <<caller, err, sortVars, confVars, fs, k, s, t, tasks,
                 data_dictionary, seg_len, regr, tmpl, movie_segments,
                 regressor_segments, saved, argVars, localVars>>

Init ==
  /\ pc = "m_start" /\ caller = "main" /\ err = "none"
  /\ SortIdle /\ ConfIdle /\ GlobalsIdle /\ ArgsIdle /\ LocalsIdle
  /\ saved = <<>>

Next ==
  \/ Start \/ MainFor \/ Unpack \/ SortSegments \/ Call \/ PrintPair
  \/ Function

Spec == Init /\ [][Next]_vars

\* --------------------------------------- _get_segment called on its own
SortDigits == {"0", "1", "9"}

\* a digit followed by zeros: 0, 1, 9, 00, 10, 90, ...
DigitStrings ==
  {[j \in 1..c |-> IF j = 1 THEN d ELSE "0"] :
     c \in 1..MaxDigits, d \in SortDigits}

SortNames ==
  {<<"task-", "life">> \o ds \o <<"_bold">> : ds \in DigitStrings}
    \cup {<<"task-", "wolf", "1", "_bold">>,
          <<"task-", "life", "_bold">>,
          <<"task-", "life", "9", "_", "task-", "life", "1">>}

InitSort ==
  /\ pc = "s_call" /\ caller = "user" /\ err = "none"
  /\ files \in SeqsUpTo(SortNames, MaxFiles)
  /\ task \in {"life", "wolf"}
  /\ segments = <<>>
  /\ ConfIdle /\ GlobalsIdle /\ ArgsIdle /\ LocalsIdle
  /\ saved = <<>>

\* lines 55-57
GetSegment ==
  /\ pc = "s_call"
  /\ IF GetSegmentRaises(files, task)
     THEN Raise("AttributeError") /\ UNCHANGED segments
     ELSE /\ segments' = get_segment(files, task)
          /\ pc' = "s_return"
          /\ UNCHANGED err
  /\ UNCHANGED <<caller, files, task, confVars, globalVars, saved, argVars,
                 localVars>>

SpecSort == InitSort /\ [][GetSegment]_vars

\* ---------------------------------- _subset_confounds called on its own
Rotated(q, r) == [j \in 1..Len(q) |-> q[((j - 1 + r) % Len(q)) + 1]]

Dropped(q, d) ==
  IF d = 0 THEN q ELSE SubSeq(q, 1, d - 1) \o SubSeq(q, d + 1, Len(q))

InsertedAt(q, p, x) == SubSeq(q, 1, p) \o <<x>> \o SubSeq(q, p + 1, Len(q))

\* headers: the wanted columns in some order, perhaps one of them absent,
\* perhaps another column among them
Headers ==
  LET base == {Dropped(Rotated(keep_confounds, r), d) :
                 r \in 0..(Len(keep_confounds) - 1),
                 d \in 0..Len(keep_confounds)}
  IN base \cup UNION {{InsertedAt(h, p, "global_signal") : p \in 0..Len(h)} :
                        h \in base}

\* a table whose cells are all different
TableOf(h, nrows) ==
  [names |-> h,
   rows |-> [r \in 1..nrows |-> [p \in 1..Len(h) |-> 100 * r + p]]]

InitConf ==
  /\ pc = "c_call" /\ caller = "user" /\ err = "none"
  /\ tsv \in {TableOf(h, nr) : h \in Headers, nr \in 0..MaxRows}
  /\ selected_confounds = [names |-> <<>>, rows |-> <<>>]
  /\ SortIdle /\ GlobalsIdle /\ ArgsIdle /\ LocalsIdle
  /\ saved = <<>>

\* lines 27-30
SubsetConfounds ==
  /\ pc = "c_call"
  /\ IF SubsetConfoundsRaises(tsv)
     THEN Raise("KeyError") /\ UNCHANGED selected_confounds
     ELSE /\ selected_confounds' = subset_confounds(tsv)
          /\ pc' = "c_return"
          /\ UNCHANGED err
  /\ UNCHANGED <<caller, tsv, sortVars, globalVars, saved, argVars,
                 localVars>>

SpecConf == InitConf /\ [][SubsetConfounds]_vars

\* ------------------- subset_and_process_movie10 called with any arguments
CallTasks == {"bourne", "life"}

LengthLists ==
  {PySlice(segment_lengths_list[j], c) : j \in 1..2,
                                          c \in {MaxArgs - 1, MaxArgs}}

InitCall ==
  /\ pc = "f_entry" /\ caller = "user" /\ err = "none"
  /\ SortIdle /\ ConfIdle /\ LocalsIdle
  /\ saved = <<>>
  /\ k = 0 /\ printed = <<>>
  /\ movie_segments = <<>> /\ regressor_segments = <<>>
  /\ tasks = create_data_dictionary.tasks
  /\ data_dictionary = create_data_dictionary.data_dictionary
  /\ s = subjects[1]
  /\ t \in CallTasks
  /\ regr = data_dictionary[t].regr_str
  /\ tmpl = data_dictionary[t].tmpl_str
  /\ seg_len \in LengthLists
  /\ fs \in {[present |-> 1..MaxSeg, noconf |-> {}, short |-> sh] :
               sh \in 0..MaxArgs}
  /\ \E b \in 0..MaxArgs, r \in 0..MaxArgs :
       /\ r \in {b - 1, b}
       /\ bold_files =
            PySlice(get_segment(GlobBold(s, fs, FALSE, t, tmpl), t), b)
       /\ regressors =
            PySlice(get_segment(GlobRegr(s, fs, FALSE, t, regr), t), r)
  /\ segment_lengths \in LengthLists
  /\ n_segments \in {None} \cup {Some(j) : j \in (-1)..(MaxArgs + 1)}
  /\ fwhm \in {None, Some(MainFwhm)}

SpecCall == InitCall /\ [][Function]_vars

\* ------------------------------------------------------------ properties
\* the integer that follows 'task-{task}' in a name
SegmentNumber(x, tk) == IntOf(Group1(x, tk))

Indices(q, tk) == [j \in DOMAIN q |-> SegmentNumber(q[j], tk)]

Injective(q) == \A a, b \in DOMAIN q : q[a] = q[b] => a = b

\* the hard-coded segment lengths of a task
HardCoded(tk) ==
  segment_lengths_list[CHOOSE j \in DOMAIN tasks_list : tasks_list[j] = tk]

\* C1: when every name holds 'task-<task>' followed by digits, the result of
\* _get_segment is a permutation of its input (same names, same
\* multiplicities) in non-decreasing order of the integer value of the digits
C1_SortedPermutation ==
  pc = "s_return" =>
    /\ Len(segments) = Len(files)
    /\ \A x \in Range(files) \cup Range(segments) :
         Count(segments, x) = Count(files, x)
    /\ \A a, b \in DOMAIN segments :
         a < b => SegmentNumber(segments[a], task)
                    <= SegmentNumber(segments[b], task)

\* segment 10 was listed before segment 9 and comes after it in the result
C1_Witness ==
  /\ pc = "s_return"
  /\ \E a, b \in DOMAIN files :
       /\ a < b
       /\ SegmentNumber(files[a], task) = 10
       /\ SegmentNumber(files[b], task) = 9
  /\ \E a, b \in DOMAIN segments :
       /\ a < b
       /\ SegmentNumber(segments[a], task) = 9
       /\ SegmentNumber(segments[b], task) = 10

\* C2 (as stated): from the n-th processed segment the function keeps the
\* number of frames given by the n-th entry of its segment_lengths argument,
\* whenever the cleaned segment has that many frames to keep
C2_KeepsArgumentLengths ==
  pc = "f_return" =>
    \A j \in DOMAIN postproc_segments \cap DOMAIN segment_lengths :
      FramesOf(ValOf(l_movie_segments)[j], fs) >= segment_lengths[j]
        => NFrames(postproc_segments[j]) = segment_lengths[j]

\* C3 (as stated): the output of the main block for (subject, task) has the
\* sum of the first n_segments hard-coded lengths of the task, whatever the
\* lengths of the subject's input segments
C3_AlwaysHardCodedSum ==
  (pc = "f_return" /\ caller = "main") =>
    NFrames(movie) = SumSeq(PySlice(HardCoded(t), MainNSegments))

\* every processed scan has at least the hard-coded length of its position
LongEnough ==
  \A j \in DOMAIN ValOf(l_movie_segments) :
    j \in DOMAIN HardCoded(t)
      /\ FramesOf(ValOf(l_movie_segments)[j], fs) >= HardCoded(t)[j]

\* C3 (amended): when each of the processed input segments of the subject
\* has at least the hard-coded number of frames of its position, the output
\* written for (subject, task) has exactly the sum of the first n_segments
\* hard-coded segment lengths of the task
C3_HardCodedSumWhenLongEnough ==
  (pc = "f_return" /\ caller = "main" /\ LongEnough) =>
    NFrames(movie) = SumSeq(PySlice(HardCoded(t), MainNSegments))

\* an output written from segments of which one was longer than hard-coded
C3_Witness ==
  /\ pc = "f_return" /\ caller = "main" /\ LongEnough
  /\ s = subjects[2]
  /\ \E j \in DOMAIN ValOf(l_movie_segments) :
       FramesOf(ValOf(l_movie_segments)[j], fs) > HardCoded(t)[j]

\* C4: no output file is ever written twice, and a complete run of the main
\* loop has processed each of the 24 pairs of the grid exactly once, in the
\* order of the product, and left 24 output files, one naming each pair
C4_OneOutputPerPair ==
  /\ \A f \in DOMAIN saved : saved[f] = 1
  /\ (pc = "done" /\ caller = "main") =>
       /\ Len(subjects) = 6 /\ Len(tasks) = 4
       /\ k = 24
       /\ printed = Product(tasks_list)
       /\ Injective(printed)
       /\ Cardinality(DOMAIN saved) = 24
       /\ \A j \in DOMAIN printed :
            \E f \in DOMAIN saved :
              f[1] = printed[j][1] /\ printed[j][2] \in Range(f)

C4_Witness == pc = "done" /\ caller = "main" /\ Len(printed) = 24

\* C5 (as stated): called without n_segments, on as many regressors as BOLD
\* files and enough segment lengths, the function raises nothing and
\* processes every element of bold_files with the matching regressor
C5_DefaultProcessesAll ==
  (/\ caller = "user"
   /\ n_segments = None
   /\ pc \in {"f_return", "raised"}
   /\ Len(bold_files) >= 1
   /\ Len(regressors) = Len(bold_files)
   /\ Len(seg_len) >= Len(bold_files)) =>
    /\ err = "none"
    /\ Len(postproc_segments) = Len(bold_files)
    /\ \A j \in DOMAIN postproc_segments :
         /\ postproc_segments[j][1].scan = bold_files[j]
         /\ postproc_segments[j][1].conf = regressors[j]
    /\ postproc_fname \in DOMAIN saved

\* C6: the call fails on the assertion exactly when n_segments exceeds the
\* number of BOLD files, and then no confound file was read, no segment was
\* cleaned and no output file was written
C6_AssertGuardsSubset ==
  /\ err = "AssertionError" =>
       /\ pc = "raised"
       /\ l_regressor_segments = None /\ confounds = <<>>
       /\ postproc = <<>> /\ postproc_segments = <<>>
       /\ movie = <<>> /\ DOMAIN saved = {}
  /\ (caller = "user" /\ pc # "f_entry" /\ n_segments # None) =>
       (err = "AssertionError" <=> ValOf(n_segments) > Len(bold_files))

\* one segment more than there are was asked for
C6_Witness ==
  /\ caller = "user" /\ err = "AssertionError"
  /\ Len(bold_files) >= 1
  /\ ValOf(n_segments) = Len(bold_files) + 1

\* the place of a statement in the sequence of steps of a pair
Phase(p) ==
  CASE p = "m_start" -> 0
    [] p = "m_unpack" -> 1
    [] p = "m_sort" -> 2
    [] p \in {"m_call", "f_entry"} -> 3
    [] p = "f_confounds" -> 4
    [] p \in {"f_for", "f_clean", "f_trunc"} -> 5
    [] p \in {"f_fname", "f_concat"} -> 6
    [] p = "f_save" -> 7
    [] p \in {"f_return", "m_print"} -> 8
    [] OTHER -> 9

\* C7: within a pair the steps follow in the order locate, sort, select the
\* confounds, clean and truncate each segment, concatenate, write; a segment
\* is truncated only once it is cleaned; the output is written only when
\* every segment of the pair is cleaned and truncated and concatenated; and
\* the loop moves to the next pair only when the output of the current pair
\* is on disk and no call is in progress
C7_StrictSequence ==
  [][/\ (k' = k /\ pc' # "raised") => Phase(pc') >= Phase(pc)
     /\ postproc_segments' # postproc_segments /\ postproc_segments' # <<>> =>
          /\ pc = "f_trunc"
          /\ postproc # <<>>
          /\ postproc[1].scan = ValOf(l_movie_segments)[n + 1]
          /\ Len(postproc_segments') = n + 1
     /\ saved' # saved =>
          /\ pc = "f_save"
          /\ confounds # <<>>
          /\ Len(postproc_segments) = Len(ValOf(l_movie_segments))
          /\ \A j \in DOMAIN postproc_segments :
               /\ postproc_segments[j][1].scan = ValOf(l_movie_segments)[j]
               /\ NFrames(postproc_segments[j]) <= seg_len[j]
          /\ Len(movie) = Len(postproc_segments)
          /\ \A j \in DOMAIN movie : movie[j] = postproc_segments[j][1]
     /\ k' # k =>
          /\ k' = k + 1
          /\ LocalsIdle
          /\ k >= 1 => \E f \in DOMAIN saved : f[1] = s /\ f[6] = t
    ]_vars

\* the second pair has been written
C7_Witness ==
  /\ caller = "main" /\ pc = "f_return" /\ k = 2
  /\ Len(movie) = MainNSegments

\* C8: the dictionary has an entry for exactly the four tasks, each with its
\* own list of segment lengths; bourne and wolf have the fragments without a
\* run key, figures and life those that begin with 'run-1_'; regr_str and
\* tmpl_str of an entry agree on the run key
C8_DataDictionary ==
  pc # "m_start" =>
    /\ tasks = <<"bourne", "wolf", "figures", "life">>
    /\ DOMAIN data_dictionary = {"bourne", "wolf", "figures", "life"}
    /\ \A j \in 1..4 :
         data_dictionary[tasks[j]].segment_lengths = segment_lengths_list[j]
    /\ Len(data_dictionary["bourne"].segment_lengths) = 10
    /\ Len(data_dictionary["wolf"].segment_lengths) = 17
    /\ Len(data_dictionary["figures"].segment_lengths) = 12
    /\ Len(data_dictionary["life"].segment_lengths) = 5
    /\ \A tk \in {"bourne", "wolf"} :
         /\ "run-1_" \notin Range(data_dictionary[tk].regr_str)
         /\ "run-1_" \notin Range(data_dictionary[tk].tmpl_str)
    /\ \A tk \in {"figures", "life"} :
         /\ Head(data_dictionary[tk].regr_str) = "run-1_"
         /\ Head(data_dictionary[tk].tmpl_str) = "run-1_"
    /\ \A tk \in DOMAIN data_dictionary :
         ("run-1_" \in Range(data_dictionary[tk].regr_str))
           <=> ("run-1_" \in Range(data_dictionary[tk].tmpl_str))

\* the dictionary is built and the entry of a task with a run key is in use
C8_Witness ==
  /\ caller = "main" /\ pc = "m_sort" /\ t = "figures"
  /\ Head(regr) = "run-1_" /\ Head(tmpl) = "run-1_"

\* C9: the result of _subset_confounds has the eight columns trans_x,
\* trans_y, trans_z, rot_x, rot_y, rot_z, csf, white_matter in this order
\* and no other, as many rows as the table, and in every row the cells of
\* the table's columns of these names
C9_EightColumns ==
  pc = "c_return" =>
    /\ selected_confounds.names =
         <<"trans_x", "trans_y", "trans_z", "rot_x", "rot_y", "rot_z",
           "csf", "white_matter">>
    /\ Len(selected_confounds.rows) = Len(tsv.rows)
    /\ \A r \in DOMAIN tsv.rows :
         /\ Len(selected_confounds.rows[r]) = 8
         /\ \A c \in 1..8 :
              \E p \in DOMAIN tsv.names :
                /\ tsv.names[p] = selected_confounds.names[c]
                /\ tsv.rows[r][p] = selected_confounds.rows[r][c]

\* a table with another column among the eight, these in another order
C9_Witness ==
  /\ pc = "c_return"
  /\ Len(tsv.rows) = MaxRows
  /\ "global_signal" \in Range(tsv.names)
  /\ tsv.names[1] = "rot_x"
  /\ selected_confounds.rows[1][4] = tsv.rows[1][1]

\* the located BOLD files and confound files carry the same segment
\* indices, each once
SameIndicesOnce ==
  /\ Injective(Indices(movie_segments, t))
  /\ Injective(Indices(regressor_segments, t))
  /\ Range(Indices(movie_segments, t)) = Range(Indices(regressor_segments, t))

\* C10: when the located BOLD and confound files carry the same segment
\* indices, each once, every segment is cleaned with the confounds of its
\* own index, and the output holds the n_segments lowest indices in
\* ascending order
C10_AlignedAscending ==
  (caller = "main" /\ Phase(pc) \in 3..8 /\ pc # "m_print" /\ SameIndicesOnce) =>
    /\ \A j \in DOMAIN postproc_segments :
         SegmentNumber(postproc_segments[j][1].scan, t)
           = SegmentNumber(postproc_segments[j][1].conf, t)
    /\ pc = "f_return" =>
         LET out == [j \in DOMAIN movie |-> SegmentNumber(movie[j].scan, t)]
             all == Range(Indices(movie_segments, t))
         IN /\ Len(out) = MainNSegments
            /\ \A a, b \in DOMAIN out : a < b => out[a] < out[b]
            /\ \A x \in all \ Range(out) : \A y \in Range(out) : y < x
            /\ Range(out) \subseteq all

\* six segments were located and the five lowest are in the output
C10_Witness ==
  /\ caller = "main" /\ pc = "f_return" /\ SameIndicesOnce
  /\ Len(movie_segments) = 6
  /\ fs.present = 1..6
  /\ [j \in DOMAIN movie |-> SegmentNumber(movie[j].scan, t)] = <<1, 2, 3, 4, 5>>

====
